---- MODULE Spec2Model ----
(***************************************************************************)
(* Orderly MCP server: fuzzy retrieval layer.                              *)
(*                                                                         *)
(* Strings are sequences of one-character strings.  A score is the Fuse    *)
(* score in hundredths (0.7 is 70).  How Fuse scores a corpus for a query  *)
(* is an input of every search: a function from record position to a      *)
(* score, or to Unmatched for a record the engine does not return.         *)
(***************************************************************************)
EXTENDS Integers, Sequences, FiniteSets, TLC

VARIABLES
    pc,            \* "idle": no call in progress; "done": a call has returned
    req,           \* the arguments of the last call
    scores,        \* the engine's scoring of the corpus for the last query
    res,           \* the response of the last call
    trace,         \* what the last call did: built an index, ran a search
    fuseInstance,  \* per facade: is the module-level index built
    calls,         \* the tool calls in flight at once: position, facade, index used
    built,         \* per facade: how many times new Fuse(...) ran for in-flight calls
    malformed,     \* the records of the imported data files that lack a field
    files          \* the client configuration files under the working directory

vars == <<pc, req, scores, res, trace, fuseInstance, calls, built, malformed, files>>

----------------------------------------------------------------------------
(* Bounds *)

MaxCorpus == 3
MaxQueryLen == 3
MaxCalls == 3

----------------------------------------------------------------------------
(* Program constants *)

DEFAULT_LIMIT == 10
MAX_LIMIT == 10
ResourceQuality == 70
DocsQuality == 70
SdkQuality == 60
WorkflowQuality == 60
ComponentQuality == 60
DefaultDocLimit == 5
WorkflowSearchLimit == 5
ComponentSearchLimit == 5
SdkSearchLimit == 10
SdkListLimit == 5

\* The score of a record the engine does not return; above every score
Unmatched == 101

----------------------------------------------------------------------------
(* Strings *)

Null == <<"null">>

SeqsUpTo(S, n) == UNION {[1..k -> S] : k \in 0..n}

LowerCase ==
    <<"a", "b", "c", "d", "e", "f", "g", "h", "i", "j", "k", "l", "m",
      "n", "o", "p", "q", "r", "s", "t", "u", "v", "w", "x", "y", "z">>

UpperCase ==
    <<"A", "B", "C", "D", "E", "F", "G", "H", "I", "J", "K", "L", "M",
      "N", "O", "P", "Q", "R", "S", "T", "U", "V", "W", "X", "Y", "Z">>

\* The letters of table from, each mapped to the letter at its place in
\* table to
CaseTable(from, to) ==
    [c \in {from[k] : k \in DOMAIN from} |-> to[CHOOSE k \in DOMAIN from : from[k] = c]]

LowerOf == CaseTable(UpperCase, LowerCase)

UpperOf == CaseTable(LowerCase, UpperCase)

MapChar(c, table) == IF c \in DOMAIN table THEN table[c] ELSE c

toLowerCase(s) == [i \in DOMAIN s |-> MapChar(s[i], LowerOf)]

toUpperCase(s) == [i \in DOMAIN s |-> MapChar(s[i], UpperOf)]

RECURSIVE trimStart(_)
trimStart(s) ==
    IF s # <<>> /\ s[1] = " " THEN trimStart(Tail(s)) ELSE s

RECURSIVE trimEnd(_)
trimEnd(s) ==
    IF s # <<>> /\ s[Len(s)] = " " THEN trimEnd(SubSeq(s, 1, Len(s) - 1)) ELSE s

trim(s) == trimEnd(trimStart(s))

\* s.replace(/[-_]/g, '')
removeDashes(s) == SelectSeq(s, LAMBDA c : c \notin {"-", "_"})

\* parseInt(s, 10): leading whitespace, an optional sign, then digits up to
\* the first non-digit; NaN when there is no digit.
Digits == <<"0", "1", "2", "3", "4", "5", "6", "7", "8", "9">>

IsDigit(c) == \E d \in DOMAIN Digits : Digits[d] = c

DigitVal(c) == (CHOOSE d \in DOMAIN Digits : Digits[d] = c) - 1

RECURSIVE parseDigits(_, _)
parseDigits(s, acc) ==
    IF s = <<>> \/ ~IsDigit(s[1]) THEN acc
    ELSE parseDigits(Tail(s), acc * 10 + DigitVal(s[1]))

parseInt(s) ==
    LET t    == trimStart(s)
        neg  == t # <<>> /\ t[1] = "-"
        body == IF t # <<>> /\ t[1] \in {"-", "+"} THEN Tail(t) ELSE t
    IN  IF body = <<>> \/ ~IsDigit(body[1])
        THEN [nan |-> TRUE, val |-> 0]
        ELSE [nan |-> FALSE,
              val |-> IF neg THEN 0 - parseDigits(body, 0) ELSE parseDigits(body, 0)]

\* n || d for a parseInt result: NaN and 0 are falsy
OrDefault(n, d) == IF n.nan \/ n.val = 0 THEN d ELSE n.val

\* p ?? d for a URL parameter
Coalesce(p, d) == IF p = Null THEN d ELSE p

Min(a, b) == IF a < b THEN a ELSE b

\* Math.ceil(a / b) for a >= 0 and b # 0
Ceil(a, b) == IF b > 0 THEN (a + b - 1) \div b ELSE 0 - (a \div (0 - b))

\* Array.prototype.slice(start, end)
slice(s, start, end) ==
    LET n  == Len(s)
        lo == IF start < 0 THEN (IF n + start < 0 THEN 0 ELSE n + start) ELSE Min(start, n)
        hi == IF end < 0 THEN (IF n + end < 0 THEN 0 ELSE n + end) ELSE Min(end, n)
    IN  IF lo < hi THEN SubSeq(s, lo + 1, hi) ELSE <<>>

----------------------------------------------------------------------------
(* The corpus and the match engine *)

\* Record names; record i of a corpus is named NameOf(i).
NameTable == << <<"a", "-", "A">>, <<"A", "A">>, <<"A", "_">>, <<"-", "a">> >>

NameOf(i) == NameTable[((i - 1) % Len(NameTable)) + 1]

Records == 1..MaxCorpus

ScoreValues == {30, 60, 70}

Scorings == [Records -> ScoreValues \cup {Unmatched}]

NoScores == [i \in Records |-> Unmatched]

\* Fuse's default sortFn: ascending score, ties by position in the corpus
sortFn(sc, i, j) == sc[i] < sc[j] \/ (sc[i] = sc[j] /\ i < j)

RECURSIVE sortResults(_, _)
sortResults(sc, S) ==
    IF S = {} THEN <<>>
    ELSE LET m == CHOOSE i \in S : \A j \in S \ {i} : sortFn(sc, i, j)
         IN  <<[item |-> m, score |-> sc[m]]>> \o sortResults(sc, S \ {m})

\* fuse.search(query, {limit}); limit is -1 when the option is not given
fuseSearch(sc, limit) ==
    LET results == sortResults(sc, {i \in DOMAIN sc : sc[i] # Unmatched})
    IN  IF limit > -1 THEN slice(results, 0, limit) ELSE results

\* The filter with <= for <
qualityFilter_inclusive(results, threshold) ==
    SelectSeq(results, LAMBDA r : r.score <= threshold)

\* results.filter((result) => (result.score ?? 1) < threshold)
qualityFilter(results, threshold) ==
    SelectSeq(results, LAMBDA r : r.score < threshold)

Items(results) == [k \in DOMAIN results |-> results[k].item]

----------------------------------------------------------------------------
(* Resource search *)

EmptySearchResult ==
    [items |-> <<>>, total |-> 0, page |-> 1, totalPages |-> 0, hasMore |-> FALSE,
     searched |-> FALSE, pageSize |-> 0]

\* The empty-query result reporting the requested page instead of 1
searchWithPagination_echoPage(sc, query, page, limit) ==
    LET effectiveLimit == Min(limit, MAX_LIMIT)
    IN  IF query = Null \/ query = <<>> \/ Len(trim(query)) = 0
        THEN [EmptySearchResult EXCEPT !.pageSize = effectiveLimit, !.page = page]
        ELSE LET searchResults  == fuseSearch(sc, effectiveLimit * page)
                 qualityResults == qualityFilter(searchResults, ResourceQuality)
                 total          == Len(qualityResults)
                 totalPages     == Ceil(total, effectiveLimit)
                 startIndex     == (page - 1) * effectiveLimit
                 endIndex       == startIndex + effectiveLimit
             IN  [items      |-> Items(slice(qualityResults, startIndex, endIndex)),
                  total      |-> total,
                  page       |-> page,
                  totalPages |-> totalPages,
                  hasMore    |-> page < totalPages,
                  searched   |-> TRUE,
                  pageSize   |-> effectiveLimit]

\* searched and pageSize are not fields of the returned object: they record
\* whether fuse.search ran and the value of effectiveLimit.
searchWithPagination(sc, query, page, limit) ==
    LET effectiveLimit == Min(limit, MAX_LIMIT)
    IN  IF query = Null \/ query = <<>> \/ Len(trim(query)) = 0
        THEN [EmptySearchResult EXCEPT !.pageSize = effectiveLimit]
        ELSE LET searchResults  == fuseSearch(sc, effectiveLimit * page)
                 qualityResults == qualityFilter(searchResults, ResourceQuality)
                 total          == Len(qualityResults)
                 totalPages     == Ceil(total, effectiveLimit)
                 startIndex     == (page - 1) * effectiveLimit
                 endIndex       == startIndex + effectiveLimit
             IN  [items      |-> Items(slice(qualityResults, startIndex, endIndex)),
                  total      |-> total,
                  page       |-> page,
                  totalPages |-> totalPages,
                  hasMore    |-> page < totalPages,
                  searched   |-> TRUE,
                  pageSize   |-> effectiveLimit]

\* A string that is no URL read as the overview resource
parseResourceUri_overviewFallback(uri) ==
    IF uri.valid
    THEN [baseUri     |-> uri.base,
          searchQuery |-> uri.search,
          page        |-> OrDefault(parseInt(Coalesce(uri.page, <<"1">>)), 1),
          limit       |-> Min(OrDefault(parseInt(Coalesce(uri.limit, <<"1", "0">>)), 10),
                              MAX_LIMIT)]
    ELSE [baseUri |-> "orderly://overview", searchQuery |-> Null, page |-> 1,
          limit |-> DEFAULT_LIMIT]

\* A URI is [valid, base, search, page, limit]: valid says whether new URL(uri)
\* succeeds, base is protocol//host/path, and the three parameters are strings
\* or Null when absent.
parseResourceUri(uri) ==
    IF uri.valid
    THEN [baseUri     |-> uri.base,
          searchQuery |-> uri.search,
          page        |-> OrDefault(parseInt(Coalesce(uri.page, <<"1">>)), 1),
          limit       |-> Min(OrDefault(parseInt(Coalesce(uri.limit, <<"1", "0">>)), 10),
                              MAX_LIMIT)]
    ELSE [baseUri |-> uri.base, searchQuery |-> Null, page |-> 1, limit |-> DEFAULT_LIMIT]

Response(kind, mime) ==
    [kind |-> kind, mime |-> mime, items |-> <<>>, match |-> 0, total |-> 0,
     page |-> 0, totalPages |-> 0, hint |-> FALSE, listsAvailable |-> FALSE,
     searchHelp |-> FALSE, isError |-> FALSE, variant |-> <<>>]

\* hint: the "Use ?page=N+1 to see more results" line is part of the text;
\* searchHelp: the "How to Search" section is; variant: the complexity of
\* the rendered variant of a component guide.
formatSearchResults(result) ==
    IF Len(result.items) = 0
    THEN Response("noResults", "text/markdown")
    ELSE [Response("results", "text/markdown") EXCEPT
             !.items = result.items, !.total = result.total, !.page = result.page,
             !.totalPages = result.totalPages, !.hint = result.hasMore]

SearchableResources ==
    {"orderly://sdk/hooks", "orderly://sdk/components", "orderly://workflows",
     "orderly://api/rest", "orderly://api/websocket", "orderly://api/indexer",
     "orderly://sdk/python"}

\* The empty string taken for a query
Truthy_notNull(q) == q # Null

\* if (searchQuery): a non-empty string
Truthy(q) == q # Null /\ q # <<>>

\* What a call did: built an index, ran fuse.search, and the values of its
\* locals (the page and page size used, the result of searchWithPagination,
\* the qualityResults).
NoTrace ==
    [built |-> FALSE, searched |-> FALSE, pageSize |-> 0, page |-> 0,
     result |-> EmptySearchResult, quality |-> <<>>]

\* The response of getResource and what the call did; readOk says whether the
\* data file of the resource can be read and parsed.
getResource(uri, sc, readOk) ==
    LET p == parseResourceUri(uri)
        error == [res |-> Response("error", "text/plain"), trace |-> NoTrace]
    IN  CASE p.baseUri = "orderly://overview" ->
                IF Truthy(p.searchQuery)
                THEN [res |-> Response("searchNotSupported", "text/markdown"), trace |-> NoTrace]
                ELSE IF readOk
                     THEN [res |-> Response("overviewText", "text/markdown"), trace |-> NoTrace]
                     ELSE error
          [] p.baseUri \in SearchableResources ->
                IF ~readOk THEN error
                ELSE IF ~Truthy(p.searchQuery)
                THEN [res |-> [Response("overview", "text/markdown") EXCEPT
                                  !.listsAvailable = TRUE, !.searchHelp = TRUE],
                      trace |-> NoTrace]
                ELSE LET result == searchWithPagination(sc, p.searchQuery, p.page, p.limit)
                     IN  [res   |-> formatSearchResults(result),
                          trace |-> [NoTrace EXCEPT
                                        !.built = TRUE, !.searched = result.searched,
                                        !.pageSize = result.pageSize, !.page = p.page,
                                        !.result = result]]
          [] p.baseUri = "orderly://contracts" ->
                IF readOk
                THEN [res |-> Response("contracts", "application/json"), trace |-> NoTrace]
                ELSE error
          [] OTHER -> [res |-> Response("notFound", "text/plain"), trace |-> NoTrace]

----------------------------------------------------------------------------
(* Tool facades.  Each returns its response and the trace of the call;     *)
(* the building of the cached index is part of the action.                 *)

\* An exception leaves the function: kind "throws" stands for the rejected
\* promise, e.g. the TypeError of undefined.toLowerCase() when a string
\* argument is absent (Null).
Throws == [res |-> Response("throws", "text"), trace |-> NoTrace]

Searched(quality) == [NoTrace EXCEPT !.searched = TRUE, !.quality = Items(quality)]

\* results.find(pred) for the positions K where pred holds: the item of the
\* first such result, 0 for undefined
find(results, K) ==
    IF K = {} THEN 0
    ELSE results[CHOOSE k \in K : \A j \in K : k <= j].item

\* searchOrderlyDocs returning every quality match of the 2 * limit results
searchOrderlyDocs_noSlice(sc, query, limit) ==
    LET normalizedQuery == trim(toLowerCase(query))
    IN  IF normalizedQuery = <<>>
        THEN [res |-> Response("askQuery", "text"), trace |-> NoTrace]
        ELSE LET searchResults  == fuseSearch(sc, limit * 2)
                 qualityResults == qualityFilter(searchResults, DocsQuality)
                 topResults     == qualityResults
             IN  IF Len(topResults) = 0
                 THEN [res   |-> [Response("notFound", "text") EXCEPT !.listsAvailable = TRUE],
                       trace |-> Searched(qualityResults)]
                 ELSE [res   |-> [Response("results", "text") EXCEPT
                                     !.items = Items(topResults), !.total = Len(topResults)],
                       trace |-> Searched(qualityResults)]

\* The rendering reads chunk.keywords.length of every returned chunk.
searchOrderlyDocs(sc, query, limit) ==
    LET normalizedQuery == trim(toLowerCase(query))
    IN  IF query = Null THEN Throws
        ELSE IF normalizedQuery = <<>>
        THEN [res |-> Response("askQuery", "text"), trace |-> NoTrace]
        ELSE LET searchResults  == fuseSearch(sc, limit * 2)
                 qualityResults == qualityFilter(searchResults, DocsQuality)
                 topResults     == slice(qualityResults, 0, limit)
             IN  IF Len(topResults) = 0
                 THEN [res   |-> [Response("notFound", "text") EXCEPT !.listsAvailable = TRUE],
                       trace |-> Searched(qualityResults)]
                 ELSE IF \E k \in DOMAIN topResults : topResults[k].item \in malformed
                 THEN [Throws EXCEPT !.trace = Searched(qualityResults)]
                 ELSE [res   |-> [Response("results", "text") EXCEPT
                                     !.items = Items(topResults), !.total = Len(topResults)],
                       trace |-> Searched(qualityResults)]

\* The list of several matches reads r.item.description.slice(0, 100) of
\* each listed pattern; the detail of one pattern dereferences no field.
getSdkPattern(sc, pattern) ==
    LET normalizedPattern == trim(toLowerCase(pattern))
    IN  IF pattern = Null THEN Throws
        ELSE IF normalizedPattern = <<>>
        THEN [res |-> Response("askQuery", "text"), trace |-> NoTrace]
        ELSE LET searchResults  == fuseSearch(sc, SdkSearchLimit)
                 qualityResults == qualityFilter(searchResults, SdkQuality)
                 exactMatch     == find(qualityResults,
                                        {k \in DOMAIN qualityResults :
                                            toLowerCase(NameOf(qualityResults[k].item))
                                               = removeDashes(normalizedPattern)})
             IN  IF Len(qualityResults) = 0
                 THEN [res   |-> [Response("notFound", "text") EXCEPT !.listsAvailable = TRUE],
                       trace |-> Searched(qualityResults)]
                 ELSE IF exactMatch # 0 \/ Len(qualityResults) = 1
                 THEN [res   |-> [Response("detail", "text") EXCEPT
                                     !.match = IF exactMatch # 0 THEN exactMatch
                                               ELSE qualityResults[1].item],
                       trace |-> Searched(qualityResults)]
                 ELSE IF \E k \in DOMAIN slice(qualityResults, 0, SdkListLimit) :
                            qualityResults[k].item \in malformed
                 THEN [Throws EXCEPT !.trace = Searched(qualityResults)]
                 ELSE [res   |-> [Response("multiple", "text") EXCEPT
                                     !.items = Items(slice(qualityResults, 0, SdkListLimit))],
                       trace |-> Searched(qualityResults)]

\* explainWorkflow without the exact-match check: always the top-ranked match
explainWorkflow_bestOnly(sc, workflow) ==
    LET normalizedWorkflow == trim(toLowerCase(workflow))
    IN  IF normalizedWorkflow = <<>>
        THEN [res |-> Response("askQuery", "text"), trace |-> NoTrace]
        ELSE LET searchResults  == fuseSearch(sc, WorkflowSearchLimit)
                 qualityResults == qualityFilter(searchResults, WorkflowQuality)
             IN  IF Len(qualityResults) = 0
                 THEN [res   |-> [Response("notFound", "text") EXCEPT !.listsAvailable = TRUE],
                       trace |-> Searched(qualityResults)]
                 ELSE [res   |-> [Response("detail", "text") EXCEPT
                                     !.match = qualityResults[1].item],
                       trace |-> Searched(qualityResults)]

explainWorkflow(sc, workflow) ==
    LET normalizedWorkflow == trim(toLowerCase(workflow))
    IN  IF workflow = Null THEN Throws
        ELSE IF normalizedWorkflow = <<>>
        THEN [res |-> Response("askQuery", "text"), trace |-> NoTrace]
        ELSE LET searchResults  == fuseSearch(sc, WorkflowSearchLimit)
                 qualityResults == qualityFilter(searchResults, WorkflowQuality)
                 exactMatch     == find(qualityResults,
                                        {k \in DOMAIN qualityResults :
                                            removeDashes(toLowerCase(NameOf(qualityResults[k].item)))
                                               = removeDashes(normalizedWorkflow)})
             IN  IF Len(qualityResults) = 0
                 THEN [res   |-> [Response("notFound", "text") EXCEPT !.listsAvailable = TRUE],
                       trace |-> Searched(qualityResults)]
                 ELSE [res   |-> [Response("detail", "text") EXCEPT
                                     !.match = IF exactMatch # 0 THEN exactMatch
                                               ELSE qualityResults[1].item],
                       trace |-> Searched(qualityResults)]

minimal == <<"m", "i", "n", "i", "m", "a", "l">>

standard == <<"s", "t", "a", "n", "d", "a", "r", "d">>

advanced == <<"a", "d", "v", "a", "n", "c", "e", "d">>

\* The complexities of the variants of a guide, in file order
VariantTable ==
    << <<minimal, standard, advanced>>,
       <<advanced, minimal>>,
       <<minimal, standard>> >>

\* match.variants
variantsOf(i) ==
    IF i \in malformed THEN <<>> ELSE VariantTable[((i - 1) % Len(VariantTable)) + 1]

\* The first variant whatever the complexity asked for
findVariant_first(variants, normalizedComplexity) ==
    IF variants # <<>> THEN variants[1] ELSE Null

\* variants.find(complexity) || variants.find('standard') || variants[0];
\* a variant is its complexity, Null is undefined
findVariant(variants, normalizedComplexity) ==
    LET asked  == {k \in DOMAIN variants : variants[k] = normalizedComplexity}
        normal == {k \in DOMAIN variants : variants[k] = standard}
    IN  IF asked # {} THEN variants[CHOOSE k \in asked : \A j \in asked : k <= j]
        ELSE IF normal # {} THEN variants[CHOOSE k \in normal : \A j \in normal : k <= j]
        ELSE IF variants # <<>> THEN variants[1]
        ELSE Null

\* complexity is Null when the caller leaves it out: the parameter default
\* 'standard'.  variant.complexity of an undefined variant throws.
getComponentGuide(sc, component, complexity) ==
    LET normalizedComponent  == trim(toLowerCase(component))
        normalizedComplexity == trim(toLowerCase(Coalesce(complexity, standard)))
    IN  IF component = Null THEN Throws
        ELSE IF normalizedComponent = <<>>
        THEN [res |-> Response("askQuery", "text"), trace |-> NoTrace]
        ELSE LET searchResults  == fuseSearch(sc, ComponentSearchLimit)
                 qualityResults == qualityFilter(searchResults, ComponentQuality)
                 exactMatch     == find(qualityResults,
                                        {k \in DOMAIN qualityResults :
                                            removeDashes(toLowerCase(NameOf(qualityResults[k].item)))
                                               = removeDashes(normalizedComponent)})
                 match          == IF exactMatch # 0 THEN exactMatch
                                   ELSE qualityResults[1].item
                 variant        == findVariant(variantsOf(match), normalizedComplexity)
             IN  IF Len(qualityResults) = 0
                 THEN [res   |-> [Response("notFound", "text") EXCEPT !.listsAvailable = TRUE],
                       trace |-> Searched(qualityResults)]
                 ELSE IF variant = Null
                 THEN [Throws EXCEPT !.trace = Searched(qualityResults)]
                 ELSE [res   |-> [Response("detail", "text") EXCEPT
                                     !.match = match, !.variant = variant],
                       trace |-> Searched(qualityResults)]

\* items: the "See Also" list
getPythonSdkPattern(sc, pattern) ==
    LET results == fuseSearch(sc, -1)
    IN  IF Len(results) = 0
        THEN [res   |-> [Response("notFound", "text") EXCEPT !.listsAvailable = TRUE],
              trace |-> Searched(results)]
        ELSE [res   |-> [Response("detail", "text") EXCEPT
                            !.match = results[1].item,
                            !.items = Items(slice(results, 1, 4))],
              trace |-> Searched(results)]

----------------------------------------------------------------------------
(* Contract addresses: exact key lookup in contracts.json.  The file is    *)
(* written by the generator as {...chains, _metadata}; a chain is          *)
(* {chainId, testnetChainId, contracts}, a contract is {mainnet, testnet,  *)
(* description} with null for an address the source table leaves empty.    *)
(* A value of the program is a record with its type; property keys are     *)
(* strings.                                                                *)

Undefined == [type |-> "undefined"]

Str(s) == [type |-> "string", value |-> s]

Num(n) == [type |-> "number", value |-> n]

allTypes == <<"a", "l", "l">>
mainnet == <<"m", "a", "i", "n", "n", "e", "t">>
testnet == <<"t", "e", "s", "t", "n", "e", "t">>

arbitrum == <<"a", "r", "b", "i", "t", "r", "u", "m">>
bsc == <<"b", "s", "c">>
orderlyL2 == <<"o", "r", "d", "e", "r", "l", "y", "L", "2">>
metadata == <<"_", "m", "e", "t", "a", "d", "a", "t", "a">>
bnb == <<"b", "n", "b">>
USDC == <<"U", "S", "D", "C">>
USDT == <<"U", "S", "D", "T">>
Vault == <<"V", "a", "u", "l", "t">>
constructor == <<"c", "o", "n", "s", "t", "r", "u", "c", "t", "o", "r">>
toString == <<"t", "o", "S", "t", "r", "i", "n", "g">>

\* Properties every object inherits from Object.prototype
ObjectPrototype == {constructor, toString}

\* A Record<string, T>: its own properties in insertion order, each
\* [key, value]
Object(properties) == [type |-> "object", properties |-> properties]

\* The value of an inherited property: a function object, with none of the
\* fields the code reads
InheritedProperty == [type |-> "function"]

ContractInfo(mainnetAddress, testnetAddress) ==
    [type |-> "object", mainnet |-> mainnetAddress, testnet |-> testnetAddress]

ChainContracts(chainId, testnetChainId, contracts) ==
    [type |-> "object", chainId |-> chainId, testnetChainId |-> testnetChainId,
     contracts |-> Object(contracts)]

contractData ==
    Object(<<
       [key |-> arbitrum,
        value |-> ChainContracts(Num(42161), Num(421614),
                     << [key |-> USDC, value |-> ContractInfo(Str("arbitrum.USDC.mainnet"),
                                                               Str("arbitrum.USDC.testnet"))],
                        [key |-> Vault, value |-> ContractInfo(Str("arbitrum.Vault.mainnet"),
                                                                Undefined)],
                        [key |-> USDT, value |-> ContractInfo(Undefined,
                                                               Str("arbitrum.USDT.testnet"))] >>)],
       [key |-> bsc,
        value |-> ChainContracts(Num(56), Num(97),
                     << [key |-> USDC, value |-> ContractInfo(Str("bsc.USDC.mainnet"),
                                                               Str("bsc.USDC.testnet"))] >>)],
       [key |-> orderlyL2,
        value |-> ChainContracts(Num(291), Num(4460),
                     << [key |-> USDC, value |-> ContractInfo(Str("orderlyL2.USDC.mainnet"),
                                                               Undefined)] >>)],
       [key |-> metadata,
        value |-> [type |-> "object", totalChains |-> Num(3)]] >>)

\* Object.keys(obj)
ObjectKeys(obj) == [k \in DOMAIN obj.properties |-> obj.properties[k].key]

\* obj.name for a field of an interface; undefined when the object has no
\* such field
Field(obj, name) == IF name \in DOMAIN obj THEN obj[name] ELSE Undefined

\* obj[key] for a Record<string, T>: the own property, else the inherited
\* one, else undefined
Prop(obj, key) ==
    IF \E k \in DOMAIN obj.properties : obj.properties[k].key = key
    THEN obj.properties[CHOOSE k \in DOMAIN obj.properties : obj.properties[k].key = key].value
    ELSE IF key \in ObjectPrototype THEN InheritedProperty
    ELSE Undefined

\* a || b
Or(a, b) == IF a.type = "undefined" \/ a = Str("") THEN b ELSE a

\* Object.keys(contracts).find((k) => k.toLowerCase() === t) || ''
findKey(keys, normalizedContractType) ==
    LET K == {k \in DOMAIN keys : toLowerCase(keys[k]) = normalizedContractType}
    IN  IF K = {} THEN <<>> ELSE keys[CHOOSE k \in K : \A j \in K : k <= j]

ValidNetworks_withDevnet ==
    {mainnet, testnet, <<"d", "e", "v", "n", "e", "t">>}

\* ['mainnet', 'testnet']
ValidNetworks == {mainnet, testnet}

\* The address of the other network when the requested one has none
networkAddress_fallback(info, normalizedNetwork) ==
    IF normalizedNetwork = mainnet
    THEN Or(Field(info, "mainnet"), Field(info, "testnet"))
    ELSE Or(Field(info, "testnet"), Field(info, "mainnet"))

\* normalizedNetwork === 'mainnet' ? info.mainnet : info.testnet
networkAddress(info, normalizedNetwork) ==
    IF normalizedNetwork = mainnet THEN Field(info, "mainnet") ELSE Field(info, "testnet")

\* Every contract of the chain, with or without an address
listContracts_unfiltered(contracts, normalizedNetwork) ==
    [k \in DOMAIN contracts.properties |->
        [name    |-> contracts.properties[k].key,
         address |-> networkAddress(contracts.properties[k].value, normalizedNetwork)]]

\* The name and address sections of the contractType 'all' response
listContracts(contracts, normalizedNetwork) ==
    LET entries == SelectSeq(contracts.properties,
                             LAMBDA e : Or(networkAddress(e.value, normalizedNetwork), Undefined)
                                           # Undefined)
    IN  [k \in DOMAIN entries |->
            [name    |-> entries[k].key,
             address |-> networkAddress(entries[k].value, normalizedNetwork)]]

\* kind "throws": the call rejects with a TypeError.  chainLookup and
\* contractLookup say whether contractData and the chain's contracts were
\* read; chain is the property of contractData the response is built from.
ContractResponse(kind) ==
    [kind |-> kind, chain |-> <<>>, chainId |-> Undefined, listed |-> <<>>,
     contract |-> Undefined, address |-> Undefined, others |-> <<>>,
     available |-> <<>>, chainLookup |-> FALSE, contractLookup |-> FALSE,
     isError |-> FALSE]

getContractAddresses(chain, contractType, network) ==
    LET normalizedChain        == trim(toLowerCase(chain))
        normalizedContractType == trim(toLowerCase(contractType))
        normalizedNetwork      == trim(toLowerCase(network))
        chainData              == Prop(contractData, normalizedChain)
        contracts              == Field(chainData, "contracts")
        found                  == [ContractResponse("all") EXCEPT
                                      !.chain = normalizedChain,
                                      !.chainId = IF normalizedNetwork = mainnet
                                                  THEN Field(chainData, "chainId")
                                                  ELSE Or(Field(chainData, "testnetChainId"),
                                                          Str("N/A")),
                                      !.chainLookup = TRUE,
                                      !.contractLookup = TRUE]
    IN  IF chain = Null
        THEN ContractResponse("throws")
        ELSE IF normalizedNetwork \notin ValidNetworks
        THEN ContractResponse("invalidNetwork")
        ELSE IF Or(chainData, Undefined) = Undefined
        THEN [ContractResponse("chainNotFound") EXCEPT
                 !.available = ObjectKeys(contractData), !.chainLookup = TRUE]
        ELSE IF contracts = Undefined
        THEN [found EXCEPT !.kind = "throws"]
        ELSE IF normalizedContractType = allTypes
        THEN [found EXCEPT !.listed = listContracts(contracts, normalizedNetwork)]
        ELSE LET contract ==
                     Or(Prop(contracts, toUpperCase(contractType)),
                        Or(Prop(contracts, contractType),
                           Prop(contracts,
                                findKey(ObjectKeys(contracts), normalizedContractType))))
                 address == networkAddress(contract, normalizedNetwork)
             IN  IF Or(contract, Undefined) = Undefined
                 THEN [found EXCEPT !.kind = "contractNotFound",
                                    !.available = ObjectKeys(contracts)]
                 ELSE [found EXCEPT
                          !.kind = "contract",
                          !.contract = contract,
                          !.address = Or(address, Str("Not available")),
                          !.others =
                              IF Or(Field(contract, "mainnet"), Undefined) # Undefined
                                    /\ Or(Field(contract, "testnet"), Undefined) # Undefined
                              THEN IF normalizedNetwork = mainnet
                                   THEN <<[label |-> "Testnet", address |-> Field(contract, "testnet")]>>
                                   ELSE <<[label |-> "Mainnet", address |-> Field(contract, "mainnet")]>>
                              ELSE <<>>]

----------------------------------------------------------------------------
(* API reference tools: getIndexerApiInfo and getOrderlyOneApiInfo, and    *)
(* the tool dispatcher in front of them.  The two functions have the same  *)
(* code over corpora of the same shape: categories, each with a name, a    *)
(* description and its endpoints, and the flat list of all endpoints.      *)

\* s.includes(t)
includes(s, t) ==
    \E i \in 0..(Len(s) - Len(t)) : SubSeq(s, i + 1, i + Len(t)) = t

\* Category names after the indexer's 'trading metrics',
\* 'trading metrics::volume_statistic' and 'events::events_api'
CategoryTable ==
    << [name |-> <<"t", "m">>, description |-> <<"D", "x">>],
       [name |-> <<"t", "m", ":", "v">>, description |-> <<"D", "y">>],
       [name |-> <<"e", ":", "e">>, description |-> <<"D", "z">>] >>

\* The endpoints of category k: every third record of the corpus
EndpointsOf(k) ==
    LET S == {i \in Records : ((i - 1) % Len(CategoryTable)) + 1 = k}
    IN  sortResults([i \in Records |-> 0], S)

categories ==
    [k \in DOMAIN CategoryTable |->
        [name        |-> CategoryTable[k].name,
         description |-> CategoryTable[k].description,
         endpoints   |-> Items(EndpointsOf(k))]]

ApiQuality == 60
ApiSearchLimit == 5

\* match: the position of the rendered category or endpoint
apiInfo(sc, endpoint, category) ==
    IF Truthy(category)
    THEN LET normalizedCategory == trim(toLowerCase(category))
             matching == {k \in DOMAIN categories :
                             \/ includes(toLowerCase(categories[k].name), normalizedCategory)
                             \/ includes(toLowerCase(categories[k].description),
                                         normalizedCategory)}
         IN  IF matching # {}
             THEN LET matchingCategory == CHOOSE k \in matching : \A j \in matching : k <= j
                  IN  [res   |-> [Response("category", "text") EXCEPT
                                     !.match = matchingCategory,
                                     !.items = categories[matchingCategory].endpoints],
                       trace |-> NoTrace]
             ELSE [res   |-> [Response("categoryNotFound", "text") EXCEPT !.listsAvailable = TRUE],
                   trace |-> NoTrace]
    ELSE IF ~Truthy(endpoint)
    THEN [res   |-> [Response("overview", "text") EXCEPT !.listsAvailable = TRUE],
          trace |-> NoTrace]
    ELSE LET searchResults  == fuseSearch(sc, ApiSearchLimit)
             qualityResults == qualityFilter(searchResults, ApiQuality)
         IN  IF Len(qualityResults) = 0
             THEN [res |-> Response("notFound", "text"), trace |-> Searched(qualityResults)]
             ELSE [res   |-> [Response("detail", "text") EXCEPT !.match = qualityResults[1].item],
                   trace |-> Searched(qualityResults)]

getIndexerApiInfo(sc, endpoint, category) == apiInfo(sc, endpoint, category)

getOrderlyOneApiInfo(sc, endpoint, category) == apiInfo(sc, endpoint, category)

rest == <<"r", "e", "s", "t">>

websocket == <<"w", "e", "b", "s", "o", "c", "k", "e", "t">>

auth == <<"a", "u", "t", "h">>

\* getApiInfo with the endpoint looked at before the type
getApiInfo_endpointFirst(sc, type, endpoint) ==
    IF type = Null THEN Throws
    ELSE LET normalizedType == trim(toLowerCase(type))
             searchResults  == fuseSearch(sc, ApiSearchLimit)
             qualityResults == qualityFilter(searchResults, ApiQuality)
         IN  IF Truthy(endpoint)
             THEN IF Len(qualityResults) = 0
                  THEN [res |-> Response("notFound", "text"), trace |-> Searched(qualityResults)]
                  ELSE [res   |-> [Response("detail", "text") EXCEPT
                                      !.match = qualityResults[1].item],
                        trace |-> Searched(qualityResults)]
             ELSE IF normalizedType \notin {rest, websocket, auth}
             THEN [res |-> Response("invalidType", "text"), trace |-> NoTrace]
             ELSE IF normalizedType = auth
             THEN [res |-> Response("auth", "text"), trace |-> NoTrace]
             ELSE [res   |-> [Response("overview", "text") EXCEPT !.listsAvailable = TRUE],
                   trace |-> NoTrace]

\* The REST and the WebSocket branch have the same shape over their own
\* corpus and index; the "not found" text of the WebSocket branch says
\* 'Stream' and 'streams' for 'Endpoint' and 'endpoints'.
getApiInfo(sc, type, endpoint) ==
    IF type = Null THEN Throws
    ELSE LET normalizedType == trim(toLowerCase(type))
             searchResults  == fuseSearch(sc, ApiSearchLimit)
             qualityResults == qualityFilter(searchResults, ApiQuality)
         IN  IF normalizedType \notin {rest, websocket, auth}
             THEN [res |-> Response("invalidType", "text"), trace |-> NoTrace]
             ELSE IF normalizedType = auth
             THEN [res |-> Response("auth", "text"), trace |-> NoTrace]
             ELSE IF normalizedType = rest \/ normalizedType = websocket
             THEN IF ~Truthy(endpoint)
                  THEN [res   |-> [Response("overview", "text") EXCEPT !.listsAvailable = TRUE],
                        trace |-> NoTrace]
                  ELSE IF Len(qualityResults) = 0
                  THEN [res |-> Response("notFound", "text"), trace |-> Searched(qualityResults)]
                  ELSE [res   |-> [Response("detail", "text") EXCEPT
                                      !.match = qualityResults[1].item],
                        trace |-> Searched(qualityResults)]
             ELSE [res |-> Response("unknownError", "text"), trace |-> NoTrace]

\* The cached index a tool searches; "" when the tool has none or the
\* dispatcher has no such case.  getApiInfo has one index per type.
FacadeOf(name, type) ==
    CASE name = "search_orderly_docs" -> "docs"
      [] name = "get_sdk_pattern" -> "sdk"
      [] name = "explain_workflow" -> "workflows"
      [] name = "get_component_guide" -> "components"
      [] name = "get_python_sdk_pattern" -> "python"
      [] name = "get_api_info" ->
            IF trim(toLowerCase(type)) = websocket THEN "websocket" ELSE "rest"
      [] name = "get_indexer_api_info" -> "indexer"
      [] name = "get_orderly_one_api_info" -> "orderlyOne"
      [] OTHER -> ""

\* The literal of (args.limit as number) || 5
DispatchDocLimit == 5

\* a || d for a string argument
OrElse(a, d) == IF Truthy(a) THEN a ELSE d

\* The handler without its try/catch
callTool_noCatch(request, sc) ==
    IF ~request.hasArgs
    THEN [res |-> [Response("noArguments", "text") EXCEPT !.isError = TRUE], trace |-> NoTrace]
    ELSE LET name == request.name
             result ==
                 CASE name = "search_orderly_docs" ->
                         searchOrderlyDocs(sc, request.query,
                                           IF request.limit = 0 THEN DispatchDocLimit
                                           ELSE request.limit)
                   [] name = "get_sdk_pattern" -> getSdkPattern(sc, request.query)
                   [] name = "get_contract_addresses" ->
                         [res   |-> getContractAddresses(request.chain,
                                                         OrElse(request.contractType, allTypes),
                                                         OrElse(request.network, mainnet)),
                          trace |-> NoTrace]
                   [] name = "explain_workflow" -> explainWorkflow(sc, request.query)
                   [] name = "get_api_info" -> getApiInfo(sc, request.type, request.endpoint)
                   [] name = "get_indexer_api_info" ->
                         getIndexerApiInfo(sc, request.endpoint, request.category)
                   [] name = "get_component_guide" ->
                         getComponentGuide(sc, request.query,
                                           OrElse(request.complexity, standard))
                   [] name = "get_orderly_one_api_info" ->
                         getOrderlyOneApiInfo(sc, request.endpoint, request.category)
                   [] name = "get_python_sdk_pattern" -> getPythonSdkPattern(sc, request.query)
                   [] OTHER -> Throws
         IN  result

\* The CallToolRequestSchema handler.  request.hasArgs says whether
\* request.params.arguments is present; an absent argument of a present
\* object is Null (0 for the limit), and request.query is the tool's own
\* string argument (query, pattern, workflow or component).
callTool(request, sc) ==
    IF ~request.hasArgs
    THEN [res |-> [Response("noArguments", "text") EXCEPT !.isError = TRUE], trace |-> NoTrace]
    ELSE LET name == request.name
             result ==
                 CASE name = "search_orderly_docs" ->
                         searchOrderlyDocs(sc, request.query,
                                           IF request.limit = 0 THEN DispatchDocLimit
                                           ELSE request.limit)
                   [] name = "get_sdk_pattern" -> getSdkPattern(sc, request.query)
                   [] name = "get_contract_addresses" ->
                         [res   |-> getContractAddresses(request.chain,
                                                         OrElse(request.contractType, allTypes),
                                                         OrElse(request.network, mainnet)),
                          trace |-> NoTrace]
                   [] name = "explain_workflow" -> explainWorkflow(sc, request.query)
                   [] name = "get_api_info" -> getApiInfo(sc, request.type, request.endpoint)
                   [] name = "get_indexer_api_info" ->
                         getIndexerApiInfo(sc, request.endpoint, request.category)
                   [] name = "get_component_guide" ->
                         getComponentGuide(sc, request.query,
                                           OrElse(request.complexity, standard))
                   [] name = "get_orderly_one_api_info" ->
                         getOrderlyOneApiInfo(sc, request.endpoint, request.category)
                   [] name = "get_python_sdk_pattern" -> getPythonSdkPattern(sc, request.query)
                   [] OTHER -> Throws
         IN  IF result.res.kind = "throws"
             THEN [res   |-> [Response("error", "text") EXCEPT !.isError = TRUE],
                   trace |-> result.trace]
             ELSE result

----------------------------------------------------------------------------
(* The init command: writes the MCP entry into the configuration file of   *)
(* the chosen client.  A JSON value is a typed record as above, with plain *)
(* strings for keys and string values; a text is a sequence of pieces, so  *)
(* that includes() is the substring test on pieces.                        *)

Array(items) == [type |-> "array", items |-> items]

HasKey(obj, key) == \E k \in DOMAIN obj.properties : obj.properties[k].key = key

ValueOf(obj, key) ==
    obj.properties[CHOOSE k \in DOMAIN obj.properties : obj.properties[k].key = key].value

\* A file: absent, a text, or the text of a JSON value; canonical says the
\* text is JSON.stringify(value, null, 2) followed by a newline
NoFile == [type |-> "none"]

Text(pieces) == [type |-> "text", pieces |-> pieces]

Json(value, canonical) == [type |-> "json", value |-> value, canonical |-> canonical]

PackageSpec == "@orderly.network/mcp-server@latest"

NpxServer ==
    Object(<< [key |-> "command", value |-> Str("npx")],
              [key |-> "args", value |-> Array(<<Str(PackageSpec)>>)] >>)

TomlHeader == "[mcp_servers.orderly]"

CLIENTS ==
    << [name |-> "claude", configPath |-> ".mcp.json", isToml |-> FALSE,
        config |-> Object(<< [key |-> "mcpServers",
                              value |-> Object(<< [key |-> "orderly", value |-> NpxServer] >>)] >>)],
       [name |-> "cursor", configPath |-> ".cursor/mcp.json", isToml |-> FALSE,
        config |-> Object(<< [key |-> "mcpServers",
                              value |-> Object(<< [key |-> "orderly", value |-> NpxServer] >>)] >>)],
       [name |-> "vscode", configPath |-> ".vscode/mcp.json", isToml |-> FALSE,
        config |-> Object(<< [key |-> "servers",
                              value |-> Object(<< [key |-> "orderly", value |-> NpxServer] >>)] >>)],
       [name |-> "codex", configPath |-> ".codex/config.toml", isToml |-> TRUE,
        config |-> Text(<<TomlHeader, "\ncommand = \"npx\"\nargs = [...]\n">>)],
       [name |-> "opencode", configPath |-> ".opencode/mcp.json", isToml |-> FALSE,
        config |-> Object(<<
           [key |-> "$schema", value |-> Str("https://opencode.ai/config.json")],
           [key |-> "mcp",
            value |-> Object(<<
               [key |-> "orderly",
                value |-> Object(<< [key |-> "type", value |-> Str("local")],
                                    [key |-> "command",
                                     value |-> Array(<<Str("npx"), Str(PackageSpec)>>)],
                                    [key |-> "enabled", value |-> [type |-> "boolean", value |-> TRUE]] >>)] >>)] >>)] >>

ClientNames == {CLIENTS[k].name : k \in DOMAIN CLIENTS}

Paths == {CLIENTS[k].configPath : k \in DOMAIN CLIENTS}

\* CLIENTS.find((c) => c.name === clientName), for a name of the enum
getClientConfig(clientName) ==
    CLIENTS[CHOOSE k \in DOMAIN CLIENTS : CLIENTS[k].name = clientName]

\* arrayMerge: the source array replaces the target array
overwriteMerge(targetArray, sourceArray) == sourceArray

RECURSIVE deepmerge(_, _)
\* deepmerge(target, source, {arrayMerge: overwriteMerge}): the keys of the
\* target in their order, each merged with the source's value when the
\* source has the key, then the keys only the source has
deepmerge(target, source) ==
    IF (source.type = "array") # (target.type = "array") THEN source
    ELSE IF source.type = "array" THEN overwriteMerge(target, source)
    ELSE LET isMergeableObject(value) == value.type \in {"object", "array"}
             own    == IF target.type = "object" THEN target.properties ELSE <<>>
             merged == [k \in DOMAIN own |->
                          IF ~HasKey(source, own[k].key) THEN own[k]
                          ELSE IF isMergeableObject(ValueOf(source, own[k].key))
                          THEN [key   |-> own[k].key,
                                value |-> deepmerge(own[k].value, ValueOf(source, own[k].key))]
                          ELSE [key |-> own[k].key, value |-> ValueOf(source, own[k].key)]]
             added  == SelectSeq(source.properties,
                                 LAMBDA e : \A k \in DOMAIN own : own[k].key # e.key)
         IN  Object(merged \o added)

\* The content of the file after writeConfigFile, from its content before.
\* A read or parse error leaves existingContent '' or existingConfig {}.
writeConfigFile(existing, config, isToml) ==
    IF isToml /\ config.type = "text"
    THEN LET existingContent == IF existing.type = "text" THEN existing.pieces ELSE <<>>
         IN  IF existingContent # <<>>
             THEN IF ~includes(existingContent, <<TomlHeader>>)
                  THEN Text(existingContent \o <<"\n">> \o config.pieces)
                  ELSE existing
             ELSE config
    ELSE LET existingConfig == IF existing.type = "json" THEN existing.value ELSE Object(<<>>)
         IN  Json(deepmerge(existingConfig, config), TRUE)

\* The files after runMcpInit for a client of the enum
runMcpInit(fs, client) ==
    LET clientInfo == getClientConfig(client)
    IN  [fs EXCEPT ![clientInfo.configPath] =
            writeConfigFile(fs[clientInfo.configPath], clientInfo.config, clientInfo.isToml)]

\* handleInit: client is opts.client ("" when the option is absent or
\* empty), response the client picked at the prompt ("" when none), installOk
\* whether the package manager run succeeds.
handleInit(fs, client, response, installOk) ==
    LET chosen == IF client # "" THEN client ELSE response
        InitResult(kind, exitCode) == [kind |-> kind, exitCode |-> exitCode]
    IN  IF chosen = ""
        THEN [files |-> fs, res |-> InitResult("cancelled", 1)]
        ELSE IF chosen \notin ClientNames
        THEN [files |-> fs, res |-> InitResult("error", 1)]
        ELSE IF chosen = "codex"
        THEN [files |-> fs, res |-> InitResult("manual", 0)]
        ELSE IF ~installOk
        THEN [files |-> runMcpInit(fs, chosen), res |-> InitResult("error", 1)]
        ELSE [files |-> runMcpInit(fs, chosen), res |-> InitResult("initialized", 0)]

----------------------------------------------------------------------------
(* Inputs *)

QueryChars == {"A", "-", " "}

Queries == SeqsUpTo(QueryChars, MaxQueryLen)

DocLimits == {-1, 0, 1, 2, DefaultDocLimit}

SearchParams == {Null, <<>>, <<" ">>, <<"A">>}

PageParams == {Null, <<"x">>, <<"0">>, <<"1">>, <<"2">>, <<"3">>, <<"-", "1">>}

LimitParams ==
    {Null, <<>>, <<"x">>, <<"0">>, <<"1">>, <<"2">>, <<"2", "x">>, <<"1", "2">>,
     <<"-", "1">>, <<"-", "2">>}

ResourceBases ==
    SearchableResources \cup {"orderly://overview", "orderly://contracts", "orderly://unknown"}

NoUri == [valid |-> FALSE, base |-> "", search |-> Null, page |-> Null, limit |-> Null]

Uris ==
    [valid : {TRUE}, base : ResourceBases, search : SearchParams,
     page : PageParams, limit : LimitParams]
    \cup {[NoUri EXCEPT !.base = "not a uri"]}

Facades ==
    {"docs", "sdk", "workflows", "components", "python", "rest", "websocket", "indexer",
     "orderlyOne"}

NoReq ==
    [op |-> "", uri |-> NoUri, query |-> <<>>, limit |-> 0, readOk |-> TRUE,
     chain |-> <<>>, contractType |-> <<>>, network |-> <<>>,
     name |-> "", hasArgs |-> TRUE, endpoint |-> Null, category |-> Null,
     type |-> Null, complexity |-> Null, client |-> "", response |-> "",
     installOk |-> TRUE]

NoRes == Response("", "")

\* The concurrent tool calls
Procs == 1..MaxCalls

NoCall == [pc |-> "pending", facade |-> "", query |-> <<>>, served |-> 0]

ConcurrentQueries == {<<>>, <<"A">>}

\* The scorings to try for a call: all of them when the call reaches
\* fuse.search, none otherwise.
ScoringsFor(r) == IF r.trace.searched THEN Scorings ELSE {NoScores}

\* Requests to the tool dispatcher
ToolNames ==
    {"search_orderly_docs", "get_sdk_pattern", "get_contract_addresses", "explain_workflow",
     "get_api_info", "get_indexer_api_info", "get_component_guide",
     "get_orderly_one_api_info", "get_python_sdk_pattern", "unknown_tool"}

EndpointArgs == {Null, <<>>, <<"A">>}

CategoryArgs ==
    {Null, <<>>, <<" ">>, <<"t", "m">>, <<"T", "M", " ">>, <<"v">>, <<"e">>, <<"y">>, <<"q">>}

QueryArgs == {Null, <<>>, <<" ">>, <<"A">>}

\* The complexity argument: absent, a variant's complexity in another case
\* and with a space, and a word that is no complexity
ComplexityArgs == {Null, <<" ", "A", "d", "v", "a", "n", "c", "e", "d">>, <<"x">>}

\* 0: args.limit absent
LimitArgs == {0, 2}

TypeArgs ==
    {Null, rest, websocket, auth, <<" ", "R", "e", "s", "t">>,
     <<"W", "E", "B", "S", "O", "C", "K", "E", "T", " ">>, <<"g", "r", "p", "c">>, <<>>}

ChainArgs == {Null, arbitrum, metadata, <<"s", "e", "i">>}

ContractTypeArgs == {Null, <<>>, USDC}

NetworkArgs == {Null, <<>>, testnet, <<"d", "e", "v", "n", "e", "t">>}

\* A request whose arguments object has none of the arguments
NoArgs ==
    [NoReq EXCEPT !.op = "callTool", !.query = Null, !.chain = Null,
                  !.contractType = Null, !.network = Null]

ToolRequests(name) ==
    LET base == [NoArgs EXCEPT !.name = name]
    IN  {[base EXCEPT !.hasArgs = FALSE]} \cup
        CASE name = "search_orderly_docs" ->
                {[base EXCEPT !.query = q, !.limit = l] : q \in QueryArgs, l \in LimitArgs}
          [] name \in {"get_sdk_pattern", "explain_workflow"} ->
                {[base EXCEPT !.query = q] : q \in QueryArgs}
          [] name = "get_component_guide" ->
                {[base EXCEPT !.query = q, !.complexity = c] :
                    q \in QueryArgs, c \in ComplexityArgs \cup {<<>>}}
          [] name = "get_python_sdk_pattern" ->
                {[base EXCEPT !.query = q] : q \in {<<>>, <<"A">>}}
          [] name = "get_contract_addresses" ->
                {[base EXCEPT !.chain = c, !.contractType = t, !.network = n] :
                    c \in ChainArgs, t \in ContractTypeArgs, n \in NetworkArgs}
          [] name = "get_api_info" ->
                {[base EXCEPT !.type = t, !.endpoint = e] : t \in TypeArgs, e \in EndpointArgs}
          [] name \in {"get_indexer_api_info", "get_orderly_one_api_info"} ->
                {[base EXCEPT !.endpoint = e, !.category = c] :
                    e \in EndpointArgs, c \in CategoryArgs}
          [] OTHER -> {base}

\* The scorings to try for a request: Fuse matches no record for the empty
\* pattern, which only getPythonSdkPattern hands to it.
EngineScorings(request) ==
    IF callTool(request, NoScores).trace.searched
          /\ ~(request.name = "get_python_sdk_pattern" /\ request.query = <<>>)
    THEN Scorings
    ELSE {NoScores}

\* Arguments of the init command and the files it may find
ClientArgs == ClientNames \cup {"", "windsurf"}

\* The JSON values of an existing configuration file whose server table
\* has the given key
ExistingConfigs(serverKey) ==
  LET OtherServer == Object(<< [key |-> "command", value |-> Str("node")] >>)
  IN
    { Object(<<>>),
      Object(<< [key |-> "theme", value |-> Str("dark")],
                [key |-> serverKey,
                 value |-> Object(<< [key |-> "other", value |-> OtherServer] >>)] >>),
      Object(<< [key |-> serverKey,
                 value |-> Object(<<
                    [key |-> "orderly",
                     value |-> Object(<< [key |-> "env", value |-> Object(<<>>)],
                                         [key |-> "args",
                                          value |-> Array(<<Str("a"), Str("b")>>)],
                                         [key |-> "command", value |-> Str("node")] >>)],
                    [key |-> "other", value |-> OtherServer] >>)] >>),
      Object(<< [key |-> serverKey, value |-> Str("none")] >>),
      Array(<<Str("a")>>) }

ExistingFiles(clientInfo) ==
    IF clientInfo.isToml
    THEN {NoFile, Text(<<>>), Text(<<"[other]\n">>), clientInfo.config,
          Text(<<"# ", TomlHeader, "\n">>)}
    ELSE {NoFile, Text(<<"{">>), Json(clientInfo.config, TRUE), Json(clientInfo.config, FALSE)}
            \cup {Json(v, FALSE) :
                     v \in ExistingConfigs(clientInfo.config.properties[
                                              Len(clientInfo.config.properties)].key)}

\* Arguments of getContractAddresses
ChainInputs ==
    {arbitrum, bsc, orderlyL2, metadata, bnb, constructor, toString,
     <<"A", "r", "b", "i", "t", "r", "u", "m">>,
     <<" ", "a", "r", "b", "i", "t", "r", "u", "m", " ">>,
     <<"O", "R", "D", "E", "R", "L", "Y", "L", "2">>,
     <<"o", "r", "d", "e", "r", "l", "y", "l", "2">>,
     <<"s", "e", "i">>,
     <<"_", "M", "e", "t", "a", "d", "a", "t", "a">>}

ContractTypeInputs ==
    {allTypes, USDC, USDT, Vault, constructor, toString, <<>>,
     <<"A", "l", "l">>,
     <<"u", "s", "d", "c">>,
     <<" ", "U", "s", "d", "c">>,
     <<"v", "a", "u", "l", "t">>,
     <<"V", "A", "U", "L", "T">>,
     <<"W", "B", "T", "C">>}

NetworkInputs ==
    {mainnet, testnet, <<>>,
     <<" ", "M", "a", "i", "n", "n", "e", "t", " ">>,
     <<"T", "E", "S", "T", "N", "E", "T">>,
     <<"m", "a", "i", "n">>,
     <<"d", "e", "v", "n", "e", "t">>}

----------------------------------------------------------------------------
(* Actions *)

Init ==
    /\ pc = "idle"
    /\ req = NoReq
    /\ scores = NoScores
    /\ res = NoRes
    /\ trace = NoTrace
    /\ fuseInstance = [f \in Facades |-> FALSE]
    /\ calls = [p \in Procs |-> NoCall]
    /\ built = [f \in Facades |-> 0]
    /\ malformed = {}
    /\ files = [path \in Paths |-> NoFile]

\* The server started over data files whose first record lacks a field:
\* the documentation chunk has no keywords, the SDK pattern no description,
\* and the component guide an empty variants list.
InitMalformed ==
    /\ pc = "idle"
    /\ req = NoReq
    /\ scores = NoScores
    /\ res = NoRes
    /\ trace = NoTrace
    /\ fuseInstance = [f \in Facades |-> FALSE]
    /\ calls = [p \in Procs |-> NoCall]
    /\ built = [f \in Facades |-> 0]
    /\ malformed = {1}
    /\ files = [path \in Paths |-> NoFile]

\* A resource read: the index is local to the call.
GetResource ==
    /\ pc = "idle"
    /\ \E uri \in Uris, readOk \in BOOLEAN :
         \E sc \in ScoringsFor(getResource(uri, NoScores, readOk)) :
            LET r == getResource(uri, sc, readOk)
            IN  /\ req' = [NoReq EXCEPT !.op = "getResource", !.uri = uri, !.readOk = readOk]
                /\ scores' = sc
                /\ res' = r.res
                /\ trace' = r.trace
    /\ pc' = "done"
    /\ UNCHANGED <<fuseInstance, calls, built, malformed, files>>

\* A tool call whose search finds nothing in an index left by an earlier call
Call_staleIndex(f, request, sc, r) ==
    /\ pc' = "done"
    /\ req' = request
    /\ scores' = sc
    /\ res' = IF r.trace.searched /\ fuseInstance[f]
              THEN [Response("notFound", "text") EXCEPT !.listsAvailable = TRUE]
              ELSE r.res
    /\ trace' = [r.trace EXCEPT !.built = r.trace.searched /\ ~fuseInstance[f]]
    /\ fuseInstance' = IF r.trace.searched THEN [fuseInstance EXCEPT ![f] = TRUE]
                       ELSE fuseInstance
    /\ UNCHANGED <<calls, built, malformed, files>>

\* A tool call of facade f: getFuseInstance() runs right before fuse.search
\* and builds the index when fuseInstance is null.
Call(f, request, sc, r) ==
    /\ pc' = "done"
    /\ req' = request
    /\ scores' = sc
    /\ res' = r.res
    /\ trace' = [r.trace EXCEPT !.built = r.trace.searched /\ ~fuseInstance[f]]
    /\ fuseInstance' = IF r.trace.searched THEN [fuseInstance EXCEPT ![f] = TRUE]
                       ELSE fuseInstance
    /\ UNCHANGED <<calls, built, malformed, files>>

SearchOrderlyDocs ==
    /\ pc = "idle"
    /\ \E query \in Queries, limit \in DocLimits :
          \E sc \in ScoringsFor(searchOrderlyDocs(NoScores, query, limit)) :
             Call("docs",
                  [NoReq EXCEPT !.op = "searchOrderlyDocs", !.query = query, !.limit = limit],
                  sc, searchOrderlyDocs(sc, query, limit))

GetSdkPattern ==
    /\ pc = "idle"
    /\ \E pattern \in Queries :
          \E sc \in ScoringsFor(getSdkPattern(NoScores, pattern)) :
             Call("sdk", [NoReq EXCEPT !.op = "getSdkPattern", !.query = pattern],
                  sc, getSdkPattern(sc, pattern))

ExplainWorkflow ==
    /\ pc = "idle"
    /\ \E workflow \in Queries :
          \E sc \in ScoringsFor(explainWorkflow(NoScores, workflow)) :
             Call("workflows", [NoReq EXCEPT !.op = "explainWorkflow", !.query = workflow],
                  sc, explainWorkflow(sc, workflow))

\* getComponentGuide(component): the complexity is left to its default
GetComponentGuide ==
    /\ pc = "idle"
    /\ \E component \in Queries :
          \E sc \in ScoringsFor(getComponentGuide(NoScores, component, Null)) :
             Call("components", [NoReq EXCEPT !.op = "getComponentGuide", !.query = component],
                  sc, getComponentGuide(sc, component, Null))

\* The pattern goes to fuse.search as it is; Fuse matches no record for the
\* empty pattern.
GetPythonSdkPattern ==
    /\ pc = "idle"
    /\ \E pattern \in Queries :
          \E sc \in (IF pattern = <<>> THEN {NoScores} ELSE Scorings) :
             Call("python", [NoReq EXCEPT !.op = "getPythonSdkPattern", !.query = pattern],
                  sc, getPythonSdkPattern(sc, pattern))

\* A contract lookup: no index, no cache
GetContractAddresses ==
    /\ pc = "idle"
    /\ \E chain \in ChainInputs, contractType \in ContractTypeInputs,
          network \in NetworkInputs :
          /\ req' = [NoReq EXCEPT !.op = "getContractAddresses", !.chain = chain,
                                  !.contractType = contractType, !.network = network]
          /\ res' = getContractAddresses(chain, contractType, network)
    /\ pc' = "done"
    /\ scores' = NoScores
    /\ trace' = NoTrace
    /\ UNCHANGED <<fuseInstance, calls, built, malformed, files>>

\* A tools/call request
CallTool ==
    /\ pc = "idle"
    /\ \E name \in ToolNames :
          \E request \in ToolRequests(name) :
             \E sc \in EngineScorings(request) :
                IF FacadeOf(name, request.type) = ""
                THEN /\ pc' = "done"
                     /\ req' = request
                     /\ scores' = sc
                     /\ res' = callTool(request, sc).res
                     /\ trace' = NoTrace
                     /\ UNCHANGED <<fuseInstance, calls, built, malformed, files>>
                ELSE Call(FacadeOf(name, request.type), request, sc, callTool(request, sc))

\* The working directory when the command starts: at most one of the
\* configuration files exists.
InitFiles ==
    /\ pc = "idle"
    /\ req = NoReq
    /\ scores = NoScores
    /\ res = NoRes
    /\ trace = NoTrace
    /\ fuseInstance = [f \in Facades |-> FALSE]
    /\ calls = [p \in Procs |-> NoCall]
    /\ built = [f \in Facades |-> 0]
    /\ malformed = {}
    /\ \E k \in DOMAIN CLIENTS :
          \E file \in ExistingFiles(CLIENTS[k]) :
             files = [path \in Paths |-> IF path = CLIENTS[k].configPath THEN file ELSE NoFile]

\* One run of the init command
HandleInit ==
    /\ pc = "idle"
    /\ \E client \in ClientArgs, installOk \in BOOLEAN :
          \E response \in (IF client = "" THEN {"", "cursor", "codex"} ELSE {""}) :
             LET r == handleInit(files, client, response, installOk)
             IN  /\ req' = [NoReq EXCEPT !.op = "init", !.client = client,
                                         !.response = response, !.installOk = installOk]
                 /\ res' = r.res
                 /\ files' = r.files
    /\ pc' = "done"
    /\ scores' = NoScores
    /\ trace' = NoTrace
    /\ UNCHANGED <<fuseInstance, calls, built, malformed>>

\* getFuseInstance() without the test of the cached instance
getFuseInstance_rebuild(cached, constructed) ==
    [fuseInstance |-> TRUE, constructed |-> constructed + 1]

\* getFuseInstance(): new Fuse(...) when the module variable is null.  The
\* function has no await: test and assignment are one step.
getFuseInstance(cached, constructed) ==
    IF ~cached
    THEN [fuseInstance |-> TRUE, constructed |-> constructed + 1]
    ELSE [fuseInstance |-> TRUE, constructed |-> constructed]

\* Does the tool function of facade f reach getFuseInstance() for the query
Searches(f, query) ==
    CASE f = "docs" -> searchOrderlyDocs(NoScores, query, DefaultDocLimit).trace.searched
      [] f = "sdk" -> getSdkPattern(NoScores, query).trace.searched
      [] f = "workflows" -> explainWorkflow(NoScores, query).trace.searched
      [] f = "components" -> getComponentGuide(NoScores, query, Null).trace.searched
      [] f = "python" -> getPythonSdkPattern(NoScores, query).trace.searched
      [] f = "rest" -> getApiInfo(NoScores, rest, query).trace.searched
      [] f = "websocket" -> getApiInfo(NoScores, websocket, query).trace.searched
      [] f = "indexer" -> getIndexerApiInfo(NoScores, query, Null).trace.searched
      [] f = "orderlyOne" -> getOrderlyOneApiInfo(NoScores, query, Null).trace.searched

\* The dispatcher takes request p and calls the tool function.  An async
\* function runs up to its first await when it is called; the tool functions
\* have none, so the whole body, getFuseInstance() included, runs before
\* the dispatcher suspends at its own await.  served is the number of the
\* index instance the call searched, 0 when it did not search.
Dispatch(p) ==
    /\ calls[p].pc = "pending"
    /\ \E f \in Facades, query \in ConcurrentQueries :
          LET g == getFuseInstance(fuseInstance[f], built[f])
          IN  IF Searches(f, query)
              THEN /\ fuseInstance' = [fuseInstance EXCEPT ![f] = g.fuseInstance]
                   /\ built' = [built EXCEPT ![f] = g.constructed]
                   /\ calls' = [calls EXCEPT ![p] = [pc |-> "awaiting", facade |-> f,
                                                     query |-> query,
                                                     served |-> g.constructed]]
              ELSE /\ calls' = [calls EXCEPT ![p] = [pc |-> "awaiting", facade |-> f,
                                                     query |-> query, served |-> 0]]
                   /\ UNCHANGED <<fuseInstance, built>>
    /\ UNCHANGED <<pc, req, scores, res, trace, malformed, files>>

\* The awaited promise of call p resolves and the dispatcher returns the
\* result.
Resume(p) ==
    /\ calls[p].pc = "awaiting"
    /\ calls' = [calls EXCEPT ![p].pc = "returned"]
    /\ UNCHANGED <<pc, req, scores, res, trace, fuseInstance, built, malformed, files>>

\* A clear function that resets the index of every tool module
Clear_everyIndex(f) ==
    /\ pc = "idle"
    /\ fuseInstance' = [g \in Facades |-> FALSE]
    /\ UNCHANGED <<pc, req, scores, res, trace, calls, built, malformed, files>>

Clear(f) ==
    /\ pc = "idle"
    /\ fuseInstance' = [fuseInstance EXCEPT ![f] = FALSE]
    /\ UNCHANGED <<pc, req, scores, res, trace, calls, built, malformed, files>>

clearSearchCache == Clear("docs")

clearSdkPatternCache == Clear("sdk")

clearWorkflowCache == Clear("workflows")

clearComponentGuideCache == Clear("components")

\* clearApiInfoCache(): both indexes of apiInfo.ts
clearApiInfoCache ==
    /\ pc = "idle"
    /\ fuseInstance' = [fuseInstance EXCEPT !["rest"] = FALSE, !["websocket"] = FALSE]
    /\ UNCHANGED <<pc, req, scores, res, trace, calls, built, malformed, files>>

clearIndexerApiInfoCache == Clear("indexer")

clearOrderlyOneApiInfoCache == Clear("orderlyOne")

\* The response has been delivered; the server waits for the next call.
Return ==
    /\ pc = "done"
    /\ pc' = "idle"
    /\ req' = NoReq
    /\ scores' = NoScores
    /\ res' = NoRes
    /\ trace' = NoTrace
    /\ UNCHANGED <<fuseInstance, calls, built, malformed, files>>

\* The name-lookup tools with their cached indexes
Next ==
    \/ GetSdkPattern
    \/ ExplainWorkflow
    \/ GetComponentGuide
    \/ GetPythonSdkPattern
    \/ clearSdkPatternCache
    \/ clearWorkflowCache
    \/ clearComponentGuideCache
    \/ Return

Spec == Init /\ [][Next]_vars

\* The two paginated searches: resource reads and searchOrderlyDocs
NextSearch ==
    \/ GetResource
    \/ SearchOrderlyDocs
    \/ clearSearchCache
    \/ Return

SpecSearch == Init /\ [][NextSearch]_vars

\* The contract address lookup
NextContracts ==
    \/ GetContractAddresses
    \/ Return

SpecContracts == Init /\ [][NextContracts]_vars

\* The tools behind the dispatcher
NextApi ==
    \/ CallTool
    \/ clearSearchCache
    \/ clearSdkPatternCache
    \/ clearWorkflowCache
    \/ clearComponentGuideCache
    \/ clearApiInfoCache
    \/ clearIndexerApiInfoCache
    \/ clearOrderlyOneApiInfoCache
    \/ Return

SpecApi == Init /\ [][NextApi]_vars

\* The three facades of the data files with a malformed record
NextMalformed ==
    \/ SearchOrderlyDocs
    \/ GetSdkPattern
    \/ GetComponentGuide
    \/ Return

SpecMalformed == InitMalformed /\ [][NextMalformed]_vars

\* Runs of the init command in one working directory
NextInit ==
    \/ HandleInit
    \/ Return

SpecInit == InitFiles /\ [][NextInit]_vars

\* Tool calls issued together while the indexes are unbuilt
NextConcurrent ==
    \/ \E p \in Procs : Dispatch(p)
    \/ \E p \in Procs : Resume(p)

SpecConcurrent == Init /\ [][NextConcurrent]_vars

----------------------------------------------------------------------------
(* Vocabulary of the properties *)

Done(op) == pc = "done" /\ req.op = op

\* A resource read that reached searchWithPagination
ResourceSearch ==
    /\ Done("getResource")
    /\ req.uri.valid
    /\ req.uri.base \in SearchableResources
    /\ req.readOk
    /\ Truthy(req.uri.search)

Blank(q) == trim(q) = <<>>

\* Every record that passes the quality filter, in rank order
QualityRanking(sc, threshold) == Items(qualityFilter(fuseSearch(sc, -1), threshold))

RECURSIVE ConcatPages(_, _, _, _, _)
ConcatPages(sc, query, limit, from, to) ==
    IF from > to THEN <<>>
    ELSE searchWithPagination(sc, query, from, limit).items
            \o ConcatPages(sc, query, limit, from + 1, to)

Normalized(s) == removeDashes(trim(toLowerCase(s)))

SameFields(result, items, total, page, totalPages, hasMore) ==
    /\ result.items = items
    /\ result.total = total
    /\ result.page = page
    /\ result.totalPages = totalPages
    /\ result.hasMore = hasMore

----------------------------------------------------------------------------
(* Properties *)

\* C1: for a non-empty query and a limit in 1..10, the items of pages
\* 1..totalPages (totalPages as reported for page 1) concatenate to the full
\* quality-filtered ranking.
C1_PaginationConsistency ==
    (ResourceSearch /\ trace.searched /\ trace.page = 1 /\ trace.pageSize \in 1..MAX_LIMIT)
        => ConcatPages(scores, req.uri.search, trace.pageSize, 1, trace.result.totalPages)
             = QualityRanking(scores, ResourceQuality)

\* C2: total counts all quality records of the corpus whatever the page,
\* totalPages = ceil(total / limit), hasMore (and the next-page hint) is true
\* exactly when quality matches remain beyond the returned page.
C2_TotalAndHasMore ==
    (ResourceSearch /\ trace.searched /\ trace.page >= 1 /\ trace.pageSize \in 1..MAX_LIMIT)
        => LET all == QualityRanking(scores, ResourceQuality)
           IN  /\ trace.result.total = Len(all)
               /\ trace.result.totalPages = Ceil(trace.result.total, trace.pageSize)
               /\ trace.result.hasMore = (trace.page * trace.pageSize < Len(all))
               /\ (res.kind = "results" => res.hint = trace.result.hasMore)

\* C3: with an empty or whitespace-only query searchWithPagination returns
\* {items: [], total: 0, page: 1, totalPages: 0, hasMore: false} whatever the
\* index, page and limit, and does not run the engine.
C3_EmptyQuery ==
    /\ (ResourceSearch /\ Blank(req.uri.search))
          => /\ SameFields(trace.result, <<>>, 0, 1, 0, FALSE)
             /\ ~trace.searched
             /\ res.kind = "noResults"
    /\ ResourceSearch
          => \A q \in {<<>>, <<" ">>, <<" ", " ">>} :
                LET r == searchWithPagination(scores, q, trace.page, trace.pageSize)
                IN  SameFields(r, <<>>, 0, 1, 0, FALSE) /\ ~r.searched

C3_Witness ==
    /\ ResourceSearch
    /\ Blank(req.uri.search)
    /\ trace.page = 3
    /\ trace.pageSize = 2
    /\ trace.result.page = 1

\* C4: whatever the limit parameter, the page size used by the search is in
\* 1..10 and a page has at most 10 items.
C4_PageSizeCap ==
    ResourceSearch
        => /\ trace.pageSize \in 1..MAX_LIMIT
           /\ (req.uri.limit = Null => trace.pageSize = DEFAULT_LIMIT)
           /\ Len(res.items) <= MAX_LIMIT

\* C5: the items of a resource search and of searchOrderlyDocs all score
\* below 0.7 and are in the engine's order: ascending score, ties in corpus
\* order.
C5_ThresholdMonotonicity ==
    (Done("getResource") \/ Done("searchOrderlyDocs"))
        => /\ \A k \in DOMAIN res.items : scores[res.items[k]] < 70
           /\ \A k, l \in DOMAIN res.items :
                 k < l => sortFn(scores, res.items[k], res.items[l])

C5_Witness ==
    /\ Done("getResource")
    /\ res.items = <<2, 3, 1>>
    /\ scores[2] = scores[3]
    /\ scores[3] < scores[1]
    /\ \E i \in Records : scores[i] = 60

C7_ExactNameLookup ==
    Done("getSdkPattern")
        => \A k \in DOMAIN trace.quality :
              toLowerCase(NameOf(trace.quality[k])) = toLowerCase(req.query)
                 => res.kind = "detail" /\ res.match = trace.quality[k]

\* C8: more than one quality match and no exact-name match gives the
\* disambiguation list, never the detail of one record.
C8_Disambiguation ==
    ((Done("getSdkPattern") \/ Done("explainWorkflow") \/ Done("getComponentGuide")
         \/ Done("getPythonSdkPattern"))
       /\ Len(trace.quality) > 1
       /\ \A k \in DOMAIN trace.quality :
             removeDashes(toLowerCase(NameOf(trace.quality[k]))) # Normalized(req.query))
        => res.kind = "multiple"

\* C9: a non-empty query with zero quality matches is answered with the list
\* of the available categories or items.
C9_NoMatchGuidance ==
    /\ (ResourceSearch /\ trace.searched /\ QualityRanking(scores, ResourceQuality) = <<>>)
          => res.listsAvailable
    /\ ((Done("searchOrderlyDocs") \/ Done("getSdkPattern") \/ Done("explainWorkflow")
            \/ Done("getComponentGuide") \/ Done("getPythonSdkPattern"))
          /\ trace.searched /\ trace.quality = <<>>)
          => res.listsAvailable

\* C10: an empty or whitespace-only query makes every tool facade ask for a
\* query, without a search and without building the index.
C10_EmptyQueryTools ==
    ((Done("searchOrderlyDocs") \/ Done("getSdkPattern") \/ Done("explainWorkflow")
         \/ Done("getComponentGuide") \/ Done("getPythonSdkPattern"))
       /\ Blank(req.query))
        => /\ res.kind = "askQuery"
           /\ ~trace.searched
           /\ ~trace.built

\* The network argument is one of the two networks
ValidNetwork == trim(toLowerCase(req.network)) \in {mainnet, testnet}

\* The chain keys of the corpus: the properties of contractData that hold a
\* chain
ChainKeys == {arbitrum, bsc, orderlyL2}

\* Common aliases of chain names
ChainAlias(name) == IF name = bnb THEN bsc ELSE name

\* The chain keys a chain argument names: in any letter case, with
\* surrounding whitespace, or by alias
ChainsNamed(chain) ==
    {K \in ChainKeys : toLowerCase(K) = toLowerCase(ChainAlias(trim(toLowerCase(chain))))}

ContractsOf(K) == Field(Prop(contractData, K), "contracts")

\* The contract keys of chain K a contractType argument names, in any letter
\* case
ContractsNamed(K, contractType) ==
    {c \in DOMAIN ContractsOf(K).properties :
        toLowerCase(ContractsOf(K).properties[c].key) = trim(toLowerCase(contractType))}

HasAddress(info, net) == Field(info, net) \notin {Undefined, Str("")}

RequestedNetwork == IF trim(toLowerCase(req.network)) = mainnet THEN "mainnet" ELSE "testnet"

OtherNetwork == IF RequestedNetwork = "mainnet" THEN "testnet" ELSE "mainnet"

\* C11: a network other than mainnet and testnet gives the 'Invalid network'
\* message whatever the chain and contract type, with no chain or contract
\* lookup.
C11_NetworkValidationFirst ==
    (Done("getContractAddresses") /\ ~ValidNetwork)
        => /\ res.kind = "invalidNetwork"
           /\ ~res.chainLookup
           /\ ~res.contractLookup

C11_Witness ==
    /\ Done("getContractAddresses")
    /\ ~ValidNetwork
    /\ req.network # <<>>
    /\ ChainsNamed(req.chain) = {}
    /\ res.kind = "invalidNetwork"

\* C12: for a specific contract with no address for the requested network
\* the address is reported as 'Not available'; the address shown for the
\* requested network is never the other network's, which appears only under
\* 'Other Networks' and only when both addresses exist.
C12_NoCrossNetworkAddress ==
    (Done("getContractAddresses") /\ res.kind = "contract")
        => /\ ~HasAddress(res.contract, RequestedNetwork)
                 => res.address = Str("Not available") /\ res.others = <<>>
           /\ HasAddress(res.contract, RequestedNetwork)
                 => res.address = Field(res.contract, RequestedNetwork)
           /\ res.others # <<>>
                 => /\ HasAddress(res.contract, "mainnet")
                    /\ HasAddress(res.contract, "testnet")
                    /\ Len(res.others) = 1
                    /\ res.others[1].address = Field(res.contract, OtherNetwork)

C12_Witness ==
    /\ Done("getContractAddresses")
    /\ res.kind = "contract"
    /\ req.network = testnet
    /\ HasAddress(res.contract, "mainnet")
    /\ ~HasAddress(res.contract, "testnet")
    /\ res.address = Str("Not available")

\* C13: with contractType 'all' the response lists exactly the contracts of
\* the chain that have an address for the requested network, each with that
\* address.
C13_AllListsRequestedNetwork ==
    (Done("getContractAddresses") /\ res.kind = "all")
        => LET contracts == ContractsOf(res.chain).properties
               present   == SelectSeq(contracts, LAMBDA e : HasAddress(e.value, RequestedNetwork))
           IN  res.listed = [k \in DOMAIN present |->
                                [name    |-> present[k].key,
                                 address |-> Field(present[k].value, RequestedNetwork)]]

C13_Witness ==
    /\ Done("getContractAddresses")
    /\ res.kind = "all"
    /\ req.network = testnet
    /\ Len(res.listed) = 2
    /\ Len(ContractsOf(res.chain).properties) = 3

\* C14: a chain key given in any letter case, with surrounding whitespace or
\* by a common alias resolves to the data of that chain, and every contract
\* key of the chain is found in any letter case.
C14_CaseInsensitiveKeys ==
    (Done("getContractAddresses") /\ ValidNetwork)
        => \A K \in ChainsNamed(req.chain) :
              /\ res.kind \in {"all", "contract", "contractNotFound"}
              /\ res.chain = K
              /\ \A c \in ContractsNamed(K, req.contractType) :
                    /\ res.kind = "contract"
                    /\ res.contract = ContractsOf(K).properties[c].value

\* C15: a chain that is not a chain key gives the 'not found' text with the
\* available chains, a contract type that is not a contract key of the chain
\* gives the 'not found' text with the available types; the call never
\* throws.
C15_UnknownKeysReported ==
    (Done("getContractAddresses") /\ ValidNetwork)
        => /\ res.kind # "throws"
           /\ ChainsNamed(req.chain) = {}
                 => res.kind = "chainNotFound" /\ res.available = ObjectKeys(contractData)
           /\ \A K \in ChainKeys :
                 (res.chain = K
                    /\ trim(toLowerCase(req.contractType)) # allTypes
                    /\ ContractsNamed(K, req.contractType) = {})
                    => /\ res.kind = "contractNotFound"
                       /\ res.available = ObjectKeys(ContractsOf(K))

\* A tools/call request answered by one of the two API reference tools
ApiCall ==
    /\ Done("callTool")
    /\ req.name \in {"get_indexer_api_info", "get_orderly_one_api_info"}

Range(seq) == {seq[k] : k \in DOMAIN seq}

\* C18: with a category argument, the response has the endpoints of every
\* category whose name contains the argument, case-insensitively, also when
\* two or more categories match.
C18_CategoryBrowseAll ==
    (ApiCall /\ req.hasArgs /\ Truthy(req.category) /\ ~Blank(req.category))
        => \A k \in DOMAIN categories :
              includes(toLowerCase(categories[k].name), trim(toLowerCase(req.category)))
                 => /\ res.kind = "category"
                    /\ Range(categories[k].endpoints) \subseteq Range(res.items)

\* C20: a request without an arguments field for one of the two API
\* reference tools is answered like one with an empty arguments object:
\* with the overview and its category list, not with an error.
C20_NoArgumentsOverview ==
    (ApiCall /\ ~req.hasArgs)
        => /\ res.kind = "overview"
           /\ res.listsAvailable
           /\ res = callTool([req EXCEPT !.hasArgs = TRUE], scores).res

\* C19: for a limit of at least 1, searchOrderlyDocs returns at most limit
\* result sections, and they are the first ones of the ranking of the
\* quality matches (score below 0.7).
C19_DocsResultBound ==
    (Done("searchOrderlyDocs") /\ req.limit >= 1)
        => /\ Len(res.items) <= req.limit
           /\ res.items = slice(QualityRanking(scores, DocsQuality), 0, Len(res.items))

C19_Witness ==
    /\ Done("searchOrderlyDocs")
    /\ req.limit = 1
    /\ Len(res.items) = 1
    /\ Len(QualityRanking(scores, DocsQuality)) >= 2
    /\ \E i \in Records : scores[i] = 70

C16_SingleBuild ==
    \A f \in Facades :
       /\ built[f] <= 1
       /\ \A p, q \in Procs :
             (calls[p].facade = f /\ calls[q].facade = f
                /\ calls[p].served # 0 /\ calls[q].served # 0)
                => calls[p].served = calls[q].served
       /\ (\E p \in Procs : calls[p].facade = f /\ calls[p].served # 0)
             => built[f] = 1 /\ fuseInstance[f]

\* Two calls of one facade in flight at once, both suspended, served by the
\* one index
C16_Witness ==
    \E p, q \in Procs :
       /\ p # q
       /\ calls[p].pc = "awaiting"
       /\ calls[q].pc = "awaiting"
       /\ calls[p].facade = "docs"
       /\ calls[q].facade = "docs"
       /\ calls[p].served = 1
       /\ calls[q].served = 1
       /\ built["docs"] = 1

\* The URI of the read names one of the registered resources
Registered ==
    /\ req.uri.valid
    /\ req.uri.base \in SearchableResources \cup {"orderly://overview", "orderly://contracts"}

ContentKinds ==
    {"overview", "overviewText", "searchNotSupported", "results", "noResults",
     "contracts", "notFound", "error"}

\* C21: getResource answers every URI with one content entry: 'Resource not
\* found' as text/plain for a base URI that is not registered, 'Error
\* loading resource' as text/plain when the data file cannot be loaded.
C21_GetResourceTotal ==
    Done("getResource")
        => /\ res.kind \in ContentKinds
           /\ ~Registered => res.kind = "notFound" /\ res.mime = "text/plain"
           /\ (Registered /\ ~req.readOk
                  /\ ~(req.uri.base = "orderly://overview" /\ Truthy(req.uri.search)))
                 => res.kind = "error" /\ res.mime = "text/plain"
           /\ (Registered /\ req.readOk) => res.kind \notin {"notFound", "error"}

C21_Witness ==
    /\ Done("getResource")
    /\ ~req.uri.valid
    /\ res.kind = "notFound"
    /\ res.mime = "text/plain"

C26_PageDerivation ==
    (ResourceSearch /\ trace.searched /\ trace.pageSize \in 1..MAX_LIMIT)
        => LET ranking == QualityRanking(scores, ResourceQuality)
           IN  /\ trace.page >= 1
               /\ req.uri.page \in {Null, <<"x">>, <<"0">>, <<"-", "1">>} => trace.page = 1
               /\ trace.result.page = trace.page
               /\ trace.result.items
                     = slice(ranking, (trace.page - 1) * trace.pageSize,
                             trace.page * trace.pageSize)
               /\ (trace.page - 1) * trace.pageSize >= Len(ranking)
                     => trace.result.items = <<>>

\* The facades with a cached index and a clear function
CachedFacades ==
    {"docs", "sdk", "workflows", "components", "rest", "websocket", "indexer", "orderlyOne"}

\* The indexes reset by the clear function of facade f
ClearedWith(f) == IF f \in {"rest", "websocket"} THEN {"rest", "websocket"} ELSE {f}

\* The step is a tool call (seen from its end)
CallStep == pc = "idle" /\ pc' = "done" /\ req'.op = "callTool"

\* The step is the clear operation of facade f
ClearStep(f) ==
    /\ pc = "idle"
    /\ UNCHANGED <<pc, req, res, trace>>
    /\ fuseInstance' = [g \in Facades |->
                           IF g \in ClearedWith(f) THEN FALSE ELSE fuseInstance[g]]

\* C24: over any sequence of tool calls and clear operations, the index of
\* a facade goes from unbuilt to built only during a call of that facade
\* that reaches the search step, and from built to unbuilt only through
\* that facade's clear operation; a call constructs it only when it is
\* unbuilt, so at most once between two clears; a call with an empty query,
\* a validation error, an overview or a category answer leaves every index
\* as it was; and a call never builds or clears the index of another
\* facade.
C24_CacheLifecycle ==
    [][\A f \in CachedFacades :
          /\ (~fuseInstance[f] /\ fuseInstance'[f])
                => /\ CallStep
                   /\ FacadeOf(req'.name, req'.type) = f
                   /\ trace'.searched
                   /\ trace'.built
          /\ (fuseInstance[f] /\ ~fuseInstance'[f]) => ClearStep(f)
          /\ (CallStep /\ FacadeOf(req'.name, req'.type) = f)
                => /\ trace'.built => (~fuseInstance[f] /\ trace'.searched)
                   /\ (trace'.searched /\ fuseInstance[f]) => ~trace'.built
                   /\ trace'.searched => fuseInstance'[f]
                   /\ \A g \in Facades \ {f} : fuseInstance'[g] = fuseInstance[g]
                   /\ (\/ ~req'.hasArgs
                       \/ req'.query = <<>>
                       \/ res'.kind \in {"askQuery", "invalidType", "auth", "overview",
                                          "category", "categoryNotFound"}
                       \/ (req'.name \in {"get_api_info", "get_indexer_api_info",
                                           "get_orderly_one_api_info"}
                              /\ req'.endpoint \in {Null, <<>>}))
                        => fuseInstance' = fuseInstance
      ]_vars

\* A REST lookup served by the index an earlier call built, while the
\* WebSocket index is unbuilt and the indexer's is built
C24_Witness ==
    /\ Done("callTool")
    /\ req.name = "get_api_info"
    /\ FacadeOf(req.name, req.type) = "rest"
    /\ trace.searched
    /\ ~trace.built
    /\ fuseInstance["rest"]
    /\ ~fuseInstance["websocket"]
    /\ fuseInstance["indexer"]
    /\ ~fuseInstance["docs"]

\* The answer of an endpoint lookup: the full detail of the best quality
\* match (score below 0.6), or the "not found" message when there is none
BestMatchOrNotFound ==
    LET ranking == QualityRanking(scores, ApiQuality)
    IN  /\ trace.searched
        /\ IF ranking = <<>>
           THEN res.kind = "notFound"
           ELSE res.kind = "detail" /\ res.match = ranking[1]

\* C25: getIndexerApiInfo and getOrderlyOneApiInfo return the overview with
\* neither category nor endpoint, the best quality match or the "not found"
\* message with only an endpoint, and take the category branch, ignoring the
\* endpoint, when both are given; getApiInfo rejects a type other than rest,
\* websocket and auth before it looks at the endpoint, answers a rest or
\* websocket request like the other two answer without a category, and
\* never returns 'Unknown error occurred.'.
C25_LookupModes ==
    /\ (ApiCall /\ req.hasArgs)
          => /\ (~Truthy(req.category) /\ ~Truthy(req.endpoint))
                   => res.kind = "overview" /\ ~trace.searched
             /\ (~Truthy(req.category) /\ Truthy(req.endpoint)) => BestMatchOrNotFound
             /\ (Truthy(req.category) /\ Truthy(req.endpoint))
                   => /\ res.kind \in {"category", "categoryNotFound"}
                      /\ ~trace.searched
                      /\ \A e \in EndpointArgs :
                            res = callTool([req EXCEPT !.endpoint = e], scores).res
    /\ (Done("callTool") /\ req.name = "get_api_info" /\ req.hasArgs /\ req.type # Null)
          => LET normalizedType == trim(toLowerCase(req.type))
             IN  /\ normalizedType \notin {rest, websocket, auth}
                       => res.kind = "invalidType" /\ ~trace.searched
                 /\ (normalizedType \in {rest, websocket} /\ ~Truthy(req.endpoint))
                       => res.kind = "overview" /\ ~trace.searched
                 /\ (normalizedType \in {rest, websocket} /\ Truthy(req.endpoint))
                       => BestMatchOrNotFound
                 /\ res.kind # "unknownError"

C25_Witness ==
    /\ Done("callTool")
    /\ req.name = "get_api_info"
    /\ req.type = <<"g", "r", "p", "c">>
    /\ req.endpoint = <<"A">>
    /\ res.kind = "invalidType"

KnownTools == ToolNames \ {"unknown_tool"}

\* The tool function called for the request raises an exception: a string
\* argument it dereferences is absent, or the chain names a key of
\* contracts.json that is no chain
ToolThrows ==
    \/ /\ req.name \in {"search_orderly_docs", "get_sdk_pattern", "explain_workflow",
                         "get_component_guide"}
       /\ req.query = Null
    \/ req.name = "get_api_info" /\ req.type = Null
    \/ /\ req.name = "get_contract_addresses"
       /\ getContractAddresses(req.chain, OrElse(req.contractType, allTypes),
                               OrElse(req.network, mainnet)).kind = "throws"

\* C27: for every tool name and arguments object the CallTool handler
\* returns a result; an unknown tool name or an exception raised inside the
\* tool function gives isError = true with the 'Error: <message>' text, and
\* a known tool that completes normally gives its own result without
\* isError.
C27_DispatcherNeverThrows ==
    (Done("callTool") /\ req.hasArgs)
        => /\ res.kind \notin {"", "throws"}
           /\ req.name \notin KnownTools => res.kind = "error" /\ res.isError
           /\ (req.name \in KnownTools /\ ToolThrows) => res.kind = "error" /\ res.isError
           /\ (req.name \in KnownTools /\ ~ToolThrows)
                 => /\ ~res.isError
                    /\ res.kind \notin {"error", "noArguments"}

C27_Witness ==
    /\ Done("callTool")
    /\ req.name = "get_contract_addresses"
    /\ req.chain = metadata
    /\ req.hasArgs
    /\ res.kind = "error"
    /\ res.isError

\* C28: over data files with a record that lacks a weighted or rendered
\* field, searchOrderlyDocs, getSdkPattern and getComponentGuide return a
\* text response and do not throw, also when that record is matched.
C28_MalformedRecords ==
    (Done("searchOrderlyDocs") \/ Done("getSdkPattern") \/ Done("getComponentGuide"))
        => /\ res.kind # "throws"
           /\ res.mime = "text"

\* The variant the guide at position i is rendered with for a complexity
\* argument (absent or empty: 'standard')
VariantFor(i, complexity) ==
    LET asked    == trim(toLowerCase(IF Truthy(complexity) THEN complexity ELSE standard))
        variants == variantsOf(i)
    IN  IF asked \in Range(variants) THEN asked
        ELSE IF standard \in Range(variants) THEN standard
        ELSE variants[1]

GuideCall == Done("callTool") /\ req.name = "get_component_guide" /\ req.hasArgs

\* C29: for a matched guide with at least one variant, getComponentGuide
\* renders the variant whose complexity is the trimmed lower-cased
\* argument, else the 'standard' variant, else the first one; the guide
\* matched is the same for every complexity argument.
C29_VariantSelection ==
    (GuideCall /\ trace.searched /\ trace.quality # <<>>)
        => /\ res.kind = "detail"
           /\ variantsOf(res.match) # <<>>
           /\ res.variant = VariantFor(res.match, req.complexity)
           /\ \A c \in ComplexityArgs :
                 callTool([req EXCEPT !.complexity = c], scores).res.match = res.match

\* The guide without a 'standard' variant asked with a word that is no
\* complexity: its first variant
C29_Witness ==
    /\ GuideCall
    /\ res.kind = "detail"
    /\ res.match = 2
    /\ req.complexity = <<"x">>
    /\ res.variant = advanced

\* The client a run of init is for
ClientOf(request) == IF request.client # "" THEN request.client ELSE request.response

\* The step is a run of init for a supported client
InitStep == pc = "idle" /\ pc' = "done" /\ req'.op = "init" /\ ClientOf(req') \in ClientNames

RECURSIVE Preserved(_, _, _)
\* Every key of old outside the written entry is in new with its value
Preserved(old, new, config) ==
    /\ new.type = "object"
    /\ \A k \in DOMAIN old.properties :
          LET key == old.properties[k].key
              value == old.properties[k].value
          IN  /\ HasKey(new, key)
              /\ IF ~HasKey(config, key) THEN ValueOf(new, key) = value
                 ELSE (value.type = "object" /\ ValueOf(config, key).type = "object")
                         => Preserved(value, ValueOf(new, key), ValueOf(config, key))

\* The number of pieces of a text that are the header of the orderly block
RECURSIVE Headers(_)
Headers(pieces) ==
    IF pieces = <<>> THEN 0
    ELSE (IF Head(pieces) = TomlHeader THEN 1 ELSE 0) + Headers(Tail(pieces))

\* C30: for each of the clients claude, cursor, vscode, codex and opencode
\* a run of init leaves that client's configuration file created or
\* updated; a second run would leave the file as the first did; the keys of
\* an existing JSON configuration that are not part of the orderly entry
\* keep their values; a TOML configuration gets the '[mcp_servers.orderly]'
\* block only if it does not have it.
C30_InitIdempotent ==
    [][InitStep
         => LET clientInfo == getClientConfig(ClientOf(req'))
                old == files[clientInfo.configPath]
                new == files'[clientInfo.configPath]
            IN  /\ new # NoFile
                /\ new.type = IF clientInfo.isToml THEN "text" ELSE "json"
                /\ writeConfigFile(new, clientInfo.config, clientInfo.isToml) = new
                /\ (~clientInfo.isToml /\ old.type = "json" /\ old.value.type = "object")
                      => Preserved(old.value, new.value, clientInfo.config)
                /\ ~clientInfo.isToml => new.value = deepmerge(new.value, clientInfo.config)
                /\ (clientInfo.isToml /\ old.type = "text")
                      => Headers(new.pieces) = IF Headers(old.pieces) > 0
                                               THEN Headers(old.pieces) ELSE 1
      ]_vars

====
